---- MODULE Spec2Model ----
(***************************************************************************)
(* usegs: a process-wide registry GS of named state slots, each holding a  *)
(* value and a Set of listeners, with the React hook useGS binding a       *)
(* component's re-render trigger to a slot.                                *)
(*                                                                         *)
(* JavaScript values are modelled as records [t, s, f]:                    *)
(*   t  the type tag, s  the scalar's characters, f  the own enumerable    *)
(*   properties (of an object: its keys; of an array: its indices).        *)
(* Objects have an identity.  An object the caller keeps and passes again  *)
(* (a constant of the caller's module) is a value whose s names it; its    *)
(* properties are in objs, so that a write into the object is seen by      *)
(* every holder of it: an entry, Object.prototype.value, the caller.  An   *)
(* object with s empty carries its properties in f: an object literal, new *)
(* at each call, or the new record of a merge.  The registry holds such an *)
(* object in one place; a render returns it as it is, so a component holds *)
(* it too: comp[c].holds names the slot whose object comp[c].observed is,  *)
(* and a write into that object shows in comp[c].observed.                 *)
(* A listener is the array [val, setVal] the effect builds: an object with *)
(* an identity of its own, modelled by the allocation number id.           *)
(* React's scheduling (render, commit of passive effects, batched state    *)
(* updates, unmount) is the host; it is modelled as separate steps.        *)
(***************************************************************************)
EXTENDS Integers, Sequences, FiniteSets, TLC

VARIABLES GS, inherited, objs, comp, nextId, calls, last

vars == <<GS, inherited, objs, comp, nextId, calls, last>>

(***************************************************************************)
(* Bounds of the model.                                                    *)
(***************************************************************************)
\* how many calls of initGS and setGS a behaviour of the registry alone makes
MaxCalls == 3

\* how many calls of initGS, setGS and useGS a behaviour with components makes
MaxHookCalls == 4

\* how many calls of initGS, setGS and useGS a behaviour with components and
\* reads makes
MaxAllCalls == 3

\* the largest index of an array
MaxIndex == 8

\* the component instances; each is mounted at most once
Comps == {"c1", "c2"}

\* the members Object.prototype gives every plain object
Members ==
    {"constructor", "__defineGetter__", "__defineSetter__", "hasOwnProperty",
     "__lookupGetter__", "__lookupSetter__", "isPrototypeOf",
     "propertyIsEnumerable", "toString", "valueOf", "toLocaleString"}

\* the names for which GS[name] is truthy when GS = {} is created: the members
\* of Object.prototype, and __proto__, the accessor that returns the prototype
InheritedKeys == Members \cup {"__proto__"}

\* the keys callers use: two ordinary ones, a member of Object.prototype,
\* __proto__, and "value", which GS[key] finds once the prototype of GS has a
\* property of that name
Keys == {"CURRENT_FOLDER", "NEW_KEY", "constructor", "__proto__", "value"}

(***************************************************************************)
(* JavaScript values.                                                      *)
(***************************************************************************)
NoProps == [k \in {} |-> 0]

Undefined == [t |-> "undefined", s |-> <<>>, f |-> NoProps]

Null == [t |-> "null", s |-> <<>>, f |-> NoProps]

Num(d) == [t |-> "number", s |-> <<d>>, f |-> NoProps]

Str(cs) == [t |-> "string", s |-> cs, f |-> NoProps]

\* the booleans: b is "true" or "false"
Bool(b) == [t |-> "boolean", s |-> <<b>>, f |-> NoProps]

Obj(props) == [t |-> "object", s |-> <<>>, f |-> props]

\* the object or array that the caller keeps under the name id
Held(t, id) == [t |-> t, s |-> <<id>>, f |-> NoProps]

IsHeld(v) == v.t \in {"object", "array"} /\ v.s # <<>>

\* the own enumerable properties of v as they are now
Props(os, v) == IF IsHeld(v) THEN os[v.s[1]] ELSE v.f

Digit(d) ==
    CASE d = 0 -> "0" [] d = 1 -> "1" [] d = 2 -> "2" [] d = 3 -> "3"
      [] d = 4 -> "4" [] d = 5 -> "5" [] d = 6 -> "6" [] d = 7 -> "7"
      [] d = 8 -> "8" [] d = 9 -> "9"

RECURSIVE NumberToString(_)
\* String(n) of an array index n: its decimal digits
NumberToString(n) ==
    IF n < 10 THEN Digit(n) ELSE NumberToString(n \div 10) \o Digit(n % 10)

\* the property name of the i-th element (the first has the index 0)
IdxName(i) == NumberToString(i - 1)

\* the property names that are indices of an array
IndexNames == {NumberToString(i) : i \in 0..MaxIndex}

\* the array literal [e1, e2, ...]: its own properties are its indices
Arr(elems) ==
    [t |-> "array", s |-> <<>>,
     f |-> [k \in {IdxName(i) : i \in 1..Len(elems)} |->
              elems[CHOOSE i \in 1..Len(elems) : IdxName(i) = k]]]

\* !v is false
Truthy(v) ==
    CASE v.t \in {"undefined", "null"} -> FALSE
      [] v.t = "number" -> v.s \notin {<<"0">>, <<"-0">>, <<"NaN">>}
      [] v.t = "string" -> v.s # <<>>
      [] v.t = "boolean" -> v.s = <<"true">>
      [] OTHER -> TRUE

\* typeof v === "object" (null included, as in JavaScript)
TypeofObject(v) == v.t \in {"object", "array", "null"}

IsArray(v) == v.t = "array"

\* what the spread ...v copies: the own enumerable properties of v
\* (a string's are its characters by index; a number has none)
OwnProps(os, v) ==
    IF v.t = "string"
    THEN [k \in {IdxName(i) : i \in 1..Len(v.s)} |->
            Str(<<v.s[CHOOSE i \in 1..Len(v.s) : IdxName(i) = k]>>)]
    ELSE Props(os, v)

\* { ...a, ...b }: a new object; the properties are copied, an object under
\* a property is shared
Spread(os, a, b) ==
    Obj([k \in DOMAIN OwnProps(os, a) \cup DOMAIN OwnProps(os, b) |->
           IF k \in DOMAIN OwnProps(os, b)
           THEN OwnProps(os, b)[k]
           ELSE OwnProps(os, a)[k]])

\* a makeNewValue that merges into an array as it does into a keyed record
makeNewValueMergeArrays(os, val, newVal) ==
    IF ~Truthy(val) \/ ~Truthy(newVal)
    THEN newVal
    ELSE IF TypeofObject(val)
         THEN Spread(os, val, newVal)
         ELSE newVal

makeNewValue(os, val, newVal) ==
    IF ~Truthy(val) \/ ~Truthy(newVal)
    THEN newVal
    ELSE IF TypeofObject(val) /\ ~IsArray(val)
         THEN Spread(os, val, newVal)
         ELSE newVal

(***************************************************************************)
(* The values callers pass.                                                *)
(***************************************************************************)
Zero == Num("0")

NaN == Num("NaN")

False == Bool("false")

Five == Num("5")

StrA == Str(<<"a">>)

\* the objects the caller keeps, as they are when the program starts:
\* A = {a: 5}, B = {b: 0}, C = {c: 5}, N = {a: {b: 0}}, NC = {a: {c: 5}}
\* and the array L = [5]
Literals ==
    [A |-> [a |-> Five], B |-> [b |-> Zero], C |-> [c |-> Five],
     N |-> [a |-> Obj([b |-> Zero])], NC |-> [a |-> Obj([c |-> Five])],
     L |-> Arr(<<Five>>).f]

RecA == Held("object", "A")

RecB == Held("object", "B")

RecC == Held("object", "C")

\* a record whose key a holds a nested record
RecNested == Held("object", "N")

\* another record whose key a holds a nested record, of another key
RecNestedC == Held("object", "NC")

ArrFive == Held("array", "L")

\* the object literal {a: 5}, a new object at each call
FreshA == Obj([a |-> Five])

WriteVals ==
    {Undefined, Null, NaN, Five, StrA, ArrFive, RecA, RecB, RecNested,
     RecNestedC, FreshA}

\* the values of the object handed to initGS
DefaultVals == {Undefined, False, Five, RecC}

\* the own keys of the objects handed to initGS; an object has the own key
\* __proto__ when it is written {["__proto__"]: v} or comes from JSON.parse
InitKeys == Keys \ {"value"}

\* the keys used outside components: an ordinary key, the prototype accessor
\* and the name that finds the value of the prototype
RegistryKeys == {"CURRENT_FOLDER", "__proto__", "value"}

\* what is handed to initGS: object literals of at most one key each, and
\* the two values that are no object, null and a string
InitialStates ==
    {Obj(p) : p \in UNION {[D -> DefaultVals] :
                             D \in {D \in SUBSET (InitKeys \cap RegistryKeys) :
                                       Cardinality(D) <= 1}}}
       \cup {Null, StrA}

(***************************************************************************)
(* The registry: const GS = {}.  GS maps each own key to its entry.  The   *)
(* code reads GS[key], which also finds what the prototype chain of GS     *)
(* holds under the name:                                                   *)
(*   - __proto__ is the accessor of the prototype: GS["__proto__"] is      *)
(*     Object.prototype, and GS["__proto__"] = entry (registerGS on the    *)
(*     own key __proto__ of an initialState) makes the entry the prototype *)
(*     of GS; GS is then the map with the key "__proto__" in it, and the   *)
(*     names "value" and "listeners" find the entry's two properties;      *)
(*   - the members of Object.prototype (functions);                        *)
(*   - "value", once the code has assigned Object.prototype.value.         *)
(* inherited holds the own property `value` the code has assigned to such  *)
(* an object: inherited["__proto__"] is Object.prototype.value, which      *)
(* every object without an own `value` reads; inherited[m] that of the     *)
(* member m; inherited["listeners"] that of the listener Set of the entry  *)
(* that is the prototype of GS.                                            *)
(***************************************************************************)
\* Object.prototype.value
ProtoValue(inh) == IF "__proto__" \in DOMAIN inh THEN inh["__proto__"] ELSE Undefined

\* what GS[key] is: an entry, Object.prototype, a member of it, the listener
\* Set or the value of the entry that is the prototype of GS, the value of
\* Object.prototype, or undefined
Lookup(gs, inh, key) ==
    IF key \in DOMAIN gs THEN "entry"
    ELSE IF key = "__proto__" THEN "prototype"
    ELSE IF "__proto__" \in DOMAIN gs /\ key = "value" THEN "entryValue"
    ELSE IF "__proto__" \in DOMAIN gs /\ key = "listeners" THEN "set"
    ELSE IF key \in Members THEN "member"
    ELSE IF key = "value" /\ "__proto__" \in DOMAIN inh THEN "protoValue"
    ELSE "none"

\* GS[key] when it is a value found under the name "value"
FoundValue(gs, inh, key) ==
    IF Lookup(gs, inh, key) = "entryValue"
    THEN gs["__proto__"].value
    ELSE ProtoValue(inh)

\* GS[key] is truthy
Found(gs, inh, key) ==
    \/ Lookup(gs, inh, key) \in {"entry", "prototype", "set", "member"}
    \/ /\ Lookup(gs, inh, key) \in {"entryValue", "protoValue"}
       /\ Truthy(FoundValue(gs, inh, key))

\* v.value of a truthy value v: its own property, or Object.prototype's
OwnValueOf(os, v, inh) ==
    IF "value" \in DOMAIN Props(os, v)
    THEN Props(os, v)["value"]
    ELSE ProtoValue(inh)

\* GS[key].value
ValueOf(os, gs, inh, key) ==
    CASE Lookup(gs, inh, key) = "entry" -> gs[key].value
      [] Lookup(gs, inh, key) = "prototype" -> ProtoValue(inh)
      [] Lookup(gs, inh, key) \in {"member", "set"} ->
            IF key \in DOMAIN inh THEN inh[key] ELSE ProtoValue(inh)
      [] Lookup(gs, inh, key) \in {"entryValue", "protoValue"} ->
            OwnValueOf(os, FoundValue(gs, inh, key), inh)
      [] OTHER -> Undefined

\* GS[key].value = w does not throw: the module is strict code, where
\* assigning a property of a primitive (a number, a string, true) throws
CanAssign(gs, inh, key) ==
    \/ Lookup(gs, inh, key) \in {"entry", "prototype", "set", "member"}
    \/ FoundValue(gs, inh, key).t \in {"object", "array"}

\* the properties ps of an object after its property `value` became w
PutValue(ps, w) ==
    [k \in DOMAIN ps \cup {"value"} |-> IF k = "value" THEN w ELSE ps[k]]

\* the object v, which carries its properties, after v.value = w
WithValue(v, w) == [v EXCEPT !.f = PutValue(v.f, w)]

\* inherited after the own property `value` of the object named k became w
SetSlot(inh, k, w) ==
    [n \in DOMAIN inh \cup {k} |-> IF n = k THEN w ELSE inh[n]]

\* GS after GS[key].value = w; a write into an object the caller keeps
\* changes objs, and the entry goes on holding that object
AssignGS(gs, inh, key, w) ==
    IF Lookup(gs, inh, key) = "entry"
    THEN [gs EXCEPT ![key].value = w]
    ELSE IF /\ Lookup(gs, inh, key) = "entryValue"
            /\ CanAssign(gs, inh, key)
            /\ ~IsHeld(FoundValue(gs, inh, key))
    THEN [gs EXCEPT !["__proto__"].value = WithValue(@, w)]
    ELSE gs

\* inherited after GS[key].value = w; a write into an object the caller
\* keeps changes objs, and Object.prototype.value goes on holding that object
AssignInherited(gs, inh, key, w) ==
    IF Lookup(gs, inh, key) = "prototype"
    THEN SetSlot(inh, "__proto__", w)
    ELSE IF Lookup(gs, inh, key) \in {"member", "set"}
    THEN SetSlot(inh, key, w)
    ELSE IF /\ Lookup(gs, inh, key) = "protoValue"
            /\ CanAssign(gs, inh, key)
            /\ ~IsHeld(ProtoValue(inh))
    THEN SetSlot(inh, "__proto__", WithValue(ProtoValue(inh), w))
    ELSE inh

\* the caller's objects after GS[key].value = w: GS[key] is one of them when
\* the name "value" finds it, and the write is made in place, to the object
\* that every holder of it reads
AssignObjs(os, gs, inh, key, w) ==
    IF /\ Lookup(gs, inh, key) \in {"entryValue", "protoValue"}
       /\ IsHeld(FoundValue(gs, inh, key))
    THEN [os EXCEPT ![FoundValue(gs, inh, key).s[1]] = PutValue(@, w)]
    ELSE os

\* GS[key].listeners.forEach(...) throws a TypeError: GS[key] is no entry and
\* its property `listeners` is not an array without elements (forEach skips
\* the holes of an array and visits every index it has; no element is an
\* array with a function at index 1, so listener[1](...) throws)
ForEachThrows(os, gs, inh, key) ==
    IF Lookup(gs, inh, key) = "entry"
    THEN FALSE
    ELSE IF Lookup(gs, inh, key) \in {"entryValue", "protoValue"}
            /\ "listeners" \in DOMAIN Props(os, FoundValue(gs, inh, key))
    THEN LET ls == Props(os, FoundValue(gs, inh, key))["listeners"]
         IN ~(ls.t = "array" /\ DOMAIN Props(os, ls) \cap IndexNames = {})
    ELSE TRUE

\* v is an object that carries its properties
IsUnnamed(v) == v.t \in {"object", "array"} /\ v.s = <<>>

\* the slot whose object GS[key].value is: "prototype" when it is
\* Object.prototype.value, "entry" when it is the value of the entry under
\* the own key __proto__; these are the objects that GS["value"] finds and
\* GS["value"].value = ... writes in place
SlotOf(os, gs, inh, key) ==
    CASE Lookup(gs, inh, key) = "entry" ->
            IF key = "__proto__" THEN "entry" ELSE "none"
      [] Lookup(gs, inh, key) = "prototype" -> "prototype"
      [] Lookup(gs, inh, key) \in {"member", "set"} ->
            IF key \in DOMAIN inh THEN "none" ELSE "prototype"
      [] Lookup(gs, inh, key) \in {"entryValue", "protoValue"} ->
            IF "value" \in DOMAIN Props(os, FoundValue(gs, inh, key))
            THEN "none"
            ELSE "prototype"
      [] OTHER -> "none"

\* the slot whose object a render returns as GS[key].value, when that is an
\* object that carries its properties
Holds(os, gs, inh, key) ==
    IF IsUnnamed(ValueOf(os, gs, inh, key)) THEN SlotOf(os, gs, inh, key) ELSE "none"

\* the object in a slot
SlotValue(gs, inh, slot) ==
    IF slot = "entry" THEN gs["__proto__"].value ELSE ProtoValue(inh)

\* what GS[key].value = w does to the object in a slot: it puts another
\* object there, writes the property `value` of the one that is there, or
\* leaves it
Effect(gs, inh, key, slot) ==
    CASE Lookup(gs, inh, key) = "prototype" /\ slot = "prototype" -> "replaced"
      [] Lookup(gs, inh, key) = "entry" /\ key = "__proto__" /\ slot = "entry" ->
            "replaced"
      [] Lookup(gs, inh, key) = "protoValue" /\ CanAssign(gs, inh, key)
            /\ slot = "prototype" -> "written"
      [] Lookup(gs, inh, key) = "entryValue" /\ CanAssign(gs, inh, key)
            /\ slot = "entry" -> "written"
      [] OTHER -> "same"

\* the component state cs after GS[key].value = w made gs2 and inh2 of gs and
\* inh: the object the component got from its render is the one written
\* when it is still in its slot
HolderAfter(cs, gs, inh, key, gs2, inh2) ==
    IF cs.holds = "none"
    THEN cs
    ELSE CASE Effect(gs, inh, key, cs.holds) = "replaced" ->
                 [cs EXCEPT !.holds = "none"]
           [] Effect(gs, inh, key, cs.holds) = "written" ->
                 [cs EXCEPT !.observed = SlotValue(gs2, inh2, cs.holds)]
           [] OTHER -> cs

\* the array [val, setVal] of component c, the id-th object allocated
Handle(id, c, v) == [id |-> id, comp |-> c, val |-> v]

\* Set.prototype.add and Set.prototype.delete: membership is by identity
SetAdd(ls, h) == ls \cup {h}

SetDelete(ls, h) == ls \ {h}

\* a registerGS that makes the registry anew with the one key in it
registerGSOnlyKey(gs, key, value) ==
    [k \in {key} |-> [value |-> value, listeners |-> {}]]

\* a registerGS that leaves an entry that exists as it is
registerGSKeepExisting(gs, key, value) ==
    [k \in DOMAIN gs \cup {key} |->
       IF k \in DOMAIN gs THEN gs[k] ELSE [value |-> value, listeners |-> {}]]

\* a registerGS that keeps the listener set of an entry that exists
registerGSKeepListeners(gs, key, value) ==
    [k \in DOMAIN gs \cup {key} |->
       IF k # key THEN gs[k]
       ELSE [value |-> value,
             listeners |-> IF k \in DOMAIN gs THEN gs[k].listeners ELSE {}]]

registerGS(gs, key, value) ==
    [k \in DOMAIN gs \cup {key} |->
       IF k = key THEN [value |-> value, listeners |-> {}] ELSE gs[k]]

RECURSIVE RegisterEach(_, _, _)
\* Object.entries(initialState).forEach(([key, value]) => registerGS(key, value))
RegisterEach(gs, props, ks) ==
    IF ks = {}
    THEN gs
    ELSE LET k == CHOOSE k \in ks : TRUE
         IN RegisterEach(registerGS(gs, k, props[k]), props, ks \ {k})

getGS(os, gs, inh, key) ==
    IF ~Found(gs, inh, key) THEN Null ELSE ValueOf(os, gs, inh, key)

\* how often setGS's forEach calls the setVal of component c
Invocations(ls, c) == Cardinality({h \in ls : h.comp = c})

\* a setGS that walks the listeners of every key
NotifiedAllKeys(gs, key) ==
    IF key \in DOMAIN gs THEN UNION {gs[k].listeners : k \in DOMAIN gs} ELSE {}

\* the listeners setGS(key, _) walks: none when it returns early or throws
Notified(gs, key) == IF key \in DOMAIN gs THEN gs[key].listeners ELSE {}

\* an updater that leaves the dummy state as it is: no update is queued
SetValUnchanged(cs, n) == cs

\* setVal((prev) => prev + 1), n times: React queues the updates of a mounted
\* component and ignores those of an unmounted one
SetVal(cs, n) ==
    IF cs.phase \in {"rendered", "committed"}
    THEN [cs EXCEPT !.pending = @ + n]
    ELSE cs

NoInvocation == [c \in Comps |-> 0]

Result(op, key, arg, ret, threw, invoked) ==
    [op |-> op, key |-> key, arg |-> arg, ret |-> ret, threw |-> threw,
     invoked |-> invoked]

Init ==
    /\ GS = [k \in {} |-> 0]
    /\ inherited = [k \in {} |-> Undefined]
    /\ objs = Literals
    /\ comp = [c \in Comps |->
                 [phase |-> "idle", key |-> "", val |-> 0, pending |-> 0,
                  isFirstRender |-> TRUE, deps |-> <<>>, cleanup |-> <<>>,
                  observed |-> Undefined, holds |-> "none"]]
    /\ nextId = 0
    /\ calls = 0
    /\ last = Result("start", "", Undefined, Undefined, FALSE, NoInvocation)

\* Object.entries(initialState) throws a TypeError for null, and gives the
\* own enumerable properties of any other value: those of an object, the
\* characters of a string by index, none of a number or a boolean; for
\* undefined the default {} of the parameter applies.  registerGS on the own
\* key __proto__ gives GS a new prototype, whose listener Set has no property
\* `value` yet
initGS(initialState) ==
    /\ calls' = calls + 1
    /\ UNCHANGED <<objs, nextId>>
    /\ IF initialState = Null
       THEN /\ last' = Result("initGS", "", initialState, Undefined, TRUE,
                              NoInvocation)
            /\ UNCHANGED <<GS, inherited, comp>>
       ELSE /\ comp' = [c \in Comps |->
                          IF /\ "__proto__" \in DOMAIN OwnProps(objs, initialState)
                             /\ comp[c].holds = "entry"
                          THEN [comp[c] EXCEPT !.holds = "none"]
                          ELSE comp[c]]
            /\ GS' = RegisterEach(GS, OwnProps(objs, initialState),
                                  DOMAIN OwnProps(objs, initialState))
            /\ inherited' =
                  IF "__proto__" \in DOMAIN OwnProps(objs, initialState)
                  THEN [n \in DOMAIN inherited \ {"listeners"} |-> inherited[n]]
                  ELSE inherited
            /\ last' = Result("initGS", "", initialState, Undefined, FALSE,
                              NoInvocation)

GetGS(key) ==
    /\ last' = Result("getGS", key, Undefined, getGS(objs, GS, inherited, key),
                      FALSE, NoInvocation)
    /\ UNCHANGED <<GS, inherited, objs, comp, nextId, calls>>

setGS(key, newValue) ==
    /\ calls' = calls + 1
    /\ UNCHANGED nextId
    /\ IF ~Found(GS, inherited, key)
       THEN /\ GS' = registerGS(GS, key, newValue)
            /\ last' = Result("setGS", key, newValue, Undefined, FALSE, NoInvocation)
            /\ UNCHANGED <<inherited, objs, comp>>
       ELSE \* the assignment throws when GS[key] is a primitive; the forEach
            \* throws when GS[key] is no entry (undefined.forEach)
            LET w == makeNewValue(objs, ValueOf(objs, GS, inherited, key), newValue)
            IN /\ GS' = AssignGS(GS, inherited, key, w)
               /\ inherited' = AssignInherited(GS, inherited, key, w)
               /\ objs' = AssignObjs(objs, GS, inherited, key, w)
               /\ comp' = [c \in Comps |->
                             SetVal(HolderAfter(comp[c], GS, inherited, key,
                                                AssignGS(GS, inherited, key, w),
                                                AssignInherited(GS, inherited, key, w)),
                                    Invocations(Notified(GS, key), c))]
               /\ last' = Result("setGS", key, newValue, Undefined,
                                 ~CanAssign(GS, inherited, key)
                                    \/ ForEachThrows(objs, GS, inherited, key),
                                 [c \in Comps |->
                                    Invocations(Notified(GS, key), c)])

(***************************************************************************)
(* useGS, as React runs it: the function body at each render, the effect   *)
(* at the commit that follows, the effect's cleanup when its dependencies  *)
(* [key, val] change or the component unmounts.                            *)
(***************************************************************************)
\* a render that assigns initialValue to the key whatever value it holds
EnsureGSResetsValue(os, gs, inh, key, initialValue) ==
    LET g == IF ~Found(gs, inh, key) THEN registerGS(gs, key, initialValue) ELSE gs
    IN IF key \in DOMAIN g
       THEN [g EXCEPT ![key].value = initialValue]
       ELSE g

\* the body's writes to GS: register the key if it is not found, then give
\* an undefined value the initialValue
EnsureGS(os, gs, inh, key, initialValue) ==
    LET g == IF ~Found(gs, inh, key) THEN registerGS(gs, key, initialValue) ELSE gs
    IN IF ValueOf(os, g, inh, key) = Undefined
       THEN AssignGS(g, inh, key, initialValue)
       ELSE g

\* the same assignment when GS[key] is found through the prototype
EnsureInherited(os, gs, inh, key, initialValue) ==
    IF Found(gs, inh, key) /\ ValueOf(os, gs, inh, key) = Undefined
    THEN AssignInherited(gs, inh, key, initialValue)
    ELSE inh

\* the same assignment when GS[key] is an object the caller keeps
EnsureObjs(os, gs, inh, key, initialValue) ==
    IF Found(gs, inh, key) /\ ValueOf(os, gs, inh, key) = Undefined
    THEN AssignObjs(os, gs, inh, key, initialValue)
    ELSE os

\* the same assignment as the components see it that hold the object it is
\* made to
EnsureHolder(cs, os, gs, inh, key, initialValue) ==
    IF Found(gs, inh, key) /\ ValueOf(os, gs, inh, key) = Undefined
    THEN HolderAfter(cs, gs, inh, key,
                     AssignGS(gs, inh, key, initialValue),
                     AssignInherited(gs, inh, key, initialValue))
    ELSE cs

\* the body throws a TypeError: GS[key] is a primitive, and its undefined
\* property `value` is assigned
RenderThrows(os, gs, inh, key) ==
    /\ Found(gs, inh, key)
    /\ ValueOf(os, gs, inh, key) = Undefined
    /\ ~CanAssign(gs, inh, key)

\* the cleanup the first effect returned: GS[key].listeners.delete([val, setVal])
\* with the key and val of the render that made it; the array is a new object
RunCleanup(gs, cleanup, c, id) ==
    IF cleanup = <<>>
    THEN gs
    ELSE [gs EXCEPT ![cleanup[1]].listeners =
            SetDelete(@, Handle(id, c, cleanup[2]))]

\* one render of component c with the arguments (key, initialValue): the first
\* one, or a later one (a queued setVal update or the parent rendering again);
\* React runs the effects of a render before it renders the component again,
\* and unmounts a component whose render throws
useGS(c, key, initialValue) ==
    /\ comp[c].phase \in {"idle", "committed"}
    /\ calls' = calls + 1
    /\ IF RenderThrows(objs, GS, inherited, key)
       THEN /\ GS' = RunCleanup(GS, comp[c].cleanup, c, nextId)
            /\ nextId' = IF comp[c].cleanup = <<>> THEN nextId ELSE nextId + 1
            /\ comp' = [comp EXCEPT ![c] =
                          [@ EXCEPT !.phase = "unmounted", !.cleanup = <<>>]]
            /\ last' = Result("useGS", key, initialValue, Undefined, TRUE,
                              NoInvocation)
            /\ UNCHANGED <<inherited, objs>>
       ELSE /\ GS' = EnsureGS(objs, GS, inherited, key, initialValue)
            /\ inherited' = EnsureInherited(objs, GS, inherited, key, initialValue)
            /\ objs' = EnsureObjs(objs, GS, inherited, key, initialValue)
            /\ comp' = [d \in Comps |->
                          IF d = c
                          THEN [comp[c] EXCEPT
                                  !.phase = "rendered",
                                  !.key = key,
                                  !.val = @ + comp[c].pending,
                                  !.pending = 0,
                                  !.observed = ValueOf(objs', GS', inherited', key),
                                  !.holds = Holds(objs', GS', inherited', key)]
                          ELSE EnsureHolder(comp[d], objs, GS, inherited, key,
                                            initialValue)]
            /\ last' = Result("useGS", key, initialValue, comp'[c].observed,
                              FALSE, NoInvocation)
            /\ UNCHANGED nextId

\* the effect's add: GS[key].listeners.add([val, setVal])
RunAdd(gs, key, c, v, id) ==
    [gs EXCEPT ![key].listeners = SetAdd(@, Handle(id, c, v))]

\* whether React runs the effect at this commit: at mount, or when a
\* dependency of [key, val] differs from the last run's
DepsChanged(cs) == cs.deps # <<cs.key, cs.val>>

\* an effect that takes every run of it for the component's first
IsFirstRenderAlways(cs) == TRUE

\* isFirstRender.current, as the effect reads it
IsFirstRender(cs) == cs.isFirstRender

\* the commit after a render of c: the previous cleanup, then the effect
CommitEffect(c) ==
    /\ comp[c].phase = "rendered"
    /\ UNCHANGED <<inherited, objs, calls>>
    /\ IF ~DepsChanged(comp[c])
       THEN /\ comp' = [comp EXCEPT ![c].phase = "committed"]
            /\ last' = Result("commit", comp[c].key, Undefined, Undefined, FALSE,
                              NoInvocation)
            /\ UNCHANGED <<GS, nextId>>
       ELSE LET cs == comp[c]
                cleaned == RunCleanup(GS, cs.cleanup, c, nextId)
                id == IF cs.cleanup = <<>> THEN nextId ELSE nextId + 1
            IN IF ~IsFirstRender(cs)
               THEN /\ GS' = cleaned
                    /\ nextId' = id
                    /\ comp' = [comp EXCEPT ![c] =
                                  [@ EXCEPT !.phase = "committed",
                                            !.deps = <<cs.key, cs.val>>,
                                            !.cleanup = <<>>]]
                    /\ last' = Result("commit", cs.key, Undefined, Undefined, FALSE,
                                      NoInvocation)
               ELSE IF cs.key \in DOMAIN GS
               THEN /\ GS' = RunAdd(cleaned, cs.key, c, cs.val, id)
                    /\ nextId' = id + 1
                    /\ comp' = [comp EXCEPT ![c] =
                                  [@ EXCEPT !.phase = "committed",
                                            !.isFirstRender = FALSE,
                                            !.deps = <<cs.key, cs.val>>,
                                            !.cleanup = <<cs.key, cs.val>>]]
                    /\ last' = Result("commit", cs.key, Undefined, Undefined, FALSE,
                                      NoInvocation)
               ELSE \* GS[key] is the inherited member: undefined.add throws a
                    \* TypeError, and React unmounts the component
                    /\ GS' = cleaned
                    /\ nextId' = id
                    /\ comp' = [comp EXCEPT ![c] =
                                  [@ EXCEPT !.phase = "unmounted",
                                            !.isFirstRender = FALSE]]
                    /\ last' = Result("commit", cs.key, Undefined, Undefined, TRUE,
                                      NoInvocation)

\* React unmounts component c: the cleanup of its effect runs, if it has one
Unmount(c) ==
    /\ comp[c].phase = "committed"
    /\ GS' = RunCleanup(GS, comp[c].cleanup, c, nextId)
    /\ nextId' = IF comp[c].cleanup = <<>> THEN nextId ELSE nextId + 1
    /\ comp' = [comp EXCEPT ![c] = [@ EXCEPT !.phase = "unmounted", !.cleanup = <<>>]]
    /\ last' = Result("unmount", comp[c].key, Undefined, Undefined, FALSE,
                      NoInvocation)
    /\ UNCHANGED <<inherited, objs, calls>>

\* the values written while components are mounted
HookVals == {Undefined, RecB}

\* the initialValue each component passes to useGS (c2 passes none)
InitialValueOf(c) == IF c = "c1" THEN RecA ELSE Undefined

\* the keys used by components: two ordinary keys, the prototype accessor
\* and the name that finds the value of the prototype
HookKeys == Keys \ {"constructor"}

\* the objects handed to initGS while components are mounted: an ordinary
\* key, and the own key __proto__ with a scalar, which the name "value" finds
HookInitialStates ==
    {Obj([CURRENT_FOLDER |-> Zero]), Obj([__proto__ |-> Five])}

Next ==
    \/ \E initialState \in HookInitialStates :
          calls < MaxHookCalls /\ initGS(initialState)
    \/ \E key \in HookKeys, newValue \in HookVals :
          calls < MaxHookCalls /\ setGS(key, newValue)
    \/ \E c \in Comps, key \in HookKeys :
          calls < MaxHookCalls /\ useGS(c, key, InitialValueOf(c))
    \/ \E c \in Comps : CommitEffect(c)
    \/ \E c \in Comps : Unmount(c)

\* the registry with components mounted on it: writes, renders, commits, unmounts
Spec == Init /\ [][Next]_vars

NextRegistry ==
    \/ \E initialState \in InitialStates :
          calls < MaxCalls /\ initGS(initialState)
    \/ \E key \in RegistryKeys : GetGS(key)
    \/ \E key \in RegistryKeys, newValue \in WriteVals :
          calls < MaxCalls /\ setGS(key, newValue)

\* the registry used outside components: initGS, getGS and setGS alone
SpecRegistry == Init /\ [][NextRegistry]_vars

\* the keys used when every operation is at hand: an ordinary key and each
\* kind of name that GS[key] finds without an entry
AllKeys == Keys \ {"NEW_KEY"}

NextAll ==
    \/ \E initialState \in HookInitialStates :
          calls < MaxAllCalls /\ initGS(initialState)
    \/ \E key \in AllKeys : GetGS(key)
    \/ \E key \in AllKeys, newValue \in HookVals :
          calls < MaxAllCalls /\ setGS(key, newValue)
    \/ \E c \in Comps, key \in AllKeys :
          calls < MaxAllCalls /\ useGS(c, key, InitialValueOf(c))
    \/ \E c \in Comps : CommitEffect(c)
    \/ \E c \in Comps : Unmount(c)

\* the registry with components mounted on it and read from outside them:
\* every operation of the module and every step of React
SpecAll == Init /\ [][NextAll]_vars

(***************************************************************************)
(* Properties.                                                             *)
(***************************************************************************)
\* how many levels of properties a comparison of two values by content follows
ViewDepth == 4

RECURSIVE ViewTo(_, _, _)
\* the content of v, n levels deep: the properties of each object as they
\* are in os, whoever holds it; "..." stands for what lies deeper
ViewTo(os, v, n) ==
    IF v.t \notin {"object", "array"}
    THEN v
    ELSE IF n = 0
    THEN [t |-> v.t, s |-> <<"...">>, f |-> NoProps]
    ELSE [t |-> v.t, s |-> <<>>,
          f |-> [k \in DOMAIN Props(os, v) |-> ViewTo(os, Props(os, v)[k], n - 1)]]

\* the content of v: what a deep comparison of it with another value sees
View(os, v) == ViewTo(os, v, ViewDepth)

\* a listener of component c is in key k's listener set
HasHandle(c, k) == k \in DOMAIN GS /\ \E h \in GS[k].listeners : h.comp = c

\* component c called useGS(k), its effect has committed, and its listener
\* is in k's set
Subscribed(c, k) ==
    comp[c].phase = "committed" /\ comp[c].key = k /\ HasHandle(c, k)

\* C1: once a component is unmounted, none of its listeners is in any key's
\* listener set, and a setGS made after the unmount does not call its setVal.
C1_UnmountRemovesListener ==
    \A c \in Comps :
        comp[c].phase = "unmounted" =>
            /\ \A k \in Keys : ~HasHandle(c, k)
            /\ last.op = "setGS" => last.invoked[c] = 0

\* what a setGS(K, newVal) on a key that component c is subscribed to does:
\* K's value becomes makeNewValue(previous value, newVal), c's setVal is called
\* once and one update of c is queued
WriteQueuesOneUpdate(c) ==
    (last'.op = "setGS" /\ calls' = calls + 1 /\ Subscribed(c, last'.key)) =>
        /\ GS'[last'.key].value = makeNewValue(objs, GS[last'.key].value, last'.arg)
        /\ last'.invoked[c] = 1
        /\ comp'[c].pending = comp[c].pending + 1

\* no step but a setGS queues an update of c
OnlyWritesQueueUpdates(c) ==
    last'.op # "setGS" => comp'[c].pending <= comp[c].pending

\* the step is the render of c that follows a setGS on the key c is subscribed to
RerenderAfterWrite(c) ==
    /\ last.op = "setGS" /\ Subscribed(c, last.key) /\ last.invoked[c] = 1
    /\ last'.op = "useGS" /\ last'.key = last.key /\ comp'[c].phase = "rendered"

\* C2 as stated: a setGS(K, newVal) on a key that c is subscribed to queues one
\* update of c, and the re-render that follows consumes the queued updates and
\* observes the value the write stored, makeNewValue(previous value, newVal).
C2_RerenderObservesMergedValue ==
    [][\A c \in Comps :
          /\ WriteQueuesOneUpdate(c)
          /\ OnlyWritesQueueUpdates(c)
          /\ RerenderAfterWrite(c) =>
                /\ comp'[c].pending = 0
                /\ comp[c].pending >= 1
                /\ comp'[c].val = comp[c].val + comp[c].pending
                /\ comp'[c].observed = GS[last.key].value]_vars

\* C2 amended: as above, but when the value the write stored is undefined the
\* re-render's useGS(K, initialValue) assigns initialValue to K first, and the
\* component observes initialValue.
C2_RerenderObservesStoredOrInitialValue ==
    [][\A c \in Comps :
          /\ WriteQueuesOneUpdate(c)
          /\ OnlyWritesQueueUpdates(c)
          /\ RerenderAfterWrite(c) =>
                /\ comp'[c].pending = 0
                /\ comp[c].pending >= 1
                /\ comp'[c].val = comp[c].val + comp[c].pending
                /\ comp'[c].observed =
                       IF GS[last.key].value = Undefined
                       THEN last'.arg
                       ELSE GS[last.key].value
                /\ GS'[last.key].value = comp'[c].observed]_vars

\* a subscribed component was re-rendered by a write and observes the merge of
\* its initial record with the written record
C2_Witness ==
    /\ last.op = "useGS" /\ last.key = "CURRENT_FOLDER"
    /\ comp["c1"].phase = "rendered" /\ comp["c1"].val = 1
    /\ HasHandle("c1", "CURRENT_FOLDER")
    /\ comp["c1"].observed = Obj([a |-> Five, b |-> Zero])

\* C3: a mounted component has no listener under a key other than the one it
\* currently passes to useGS, and a setGS on another key does not call its setVal.
C3_KeyChangeMovesListener ==
    \A c \in Comps :
        (comp[c].phase = "committed" /\ comp[c].key \in DOMAIN GS) =>
            /\ \A k \in Keys : HasHandle(c, k) => k = comp[c].key
            /\ (last.op = "setGS" /\ last.key # comp[c].key) => last.invoked[c] = 0

IsScalar(v) == v.t \in {"undefined", "null", "number", "string", "boolean"}

\* the step is the call setGS(K, V2) made right after the call setGS(K, V1)
SecondWrite ==
    /\ last.op = "setGS" /\ last'.op = "setGS" /\ last'.key = last.key
    /\ calls' = calls + 1

\* C4: after setGS(K, V1) then setGS(K, V2), where V2 is a scalar or V1 or V2 is
\* falsy, getGS(K) returns V2.
C4_ScalarOrFalsyWriteReplaces ==
    [][(SecondWrite /\ (IsScalar(last'.arg) \/ ~Truthy(last.arg) \/ ~Truthy(last'.arg)))
          => getGS(objs', GS', inherited', last'.key) = last'.arg]_vars

\* v1 and v2, given by content, are keyed records with disjoint key sets
DisjointRecords(v1, v2) ==
    /\ v1.t = "object" /\ v2.t = "object"
    /\ DOMAIN v1.f \cap DOMAIN v2.f = {}

\* the record with exactly the keys of v1 and v2 and their values
UnionRecord(v1, v2) ==
    Obj([k \in DOMAIN v1.f \cup DOMAIN v2.f |->
           IF k \in DOMAIN v1.f THEN v1.f[k] ELSE v2.f[k]])

\* C5: after setGS(K, V1) then setGS(K, V2) with V1 and V2 keyed records of
\* disjoint keys, getGS(K) is, by content, the union record of V1 and V2,
\* whatever K held before the first write.
C5_DisjointWritesGiveUnion ==
    [][(SecondWrite /\ DisjointRecords(View(objs, last.arg), View(objs, last'.arg)))
          => View(objs', getGS(objs', GS', inherited', last'.key))
                = UnionRecord(View(objs, last.arg), View(objs, last'.arg))]_vars

\* C6: a setGS on a key that has an entry calls the setVal of each component as
\* many times as the key's listener set holds listeners of it (once per
\* listener, none for a listener of another key only) and queues that many
\* updates of a mounted component; the listener sets stay as they are.
C6_WriteNotifiesTheKeysListeners ==
    [][(last'.op = "setGS" /\ calls' = calls + 1 /\ last'.key \in DOMAIN GS) =>
          /\ \A c \in Comps :
                LET n == Cardinality({h \in GS[last'.key].listeners : h.comp = c})
                IN /\ last'.invoked[c] = n
                   /\ comp'[c].pending =
                        comp[c].pending +
                          (IF comp[c].phase \in {"rendered", "committed"} THEN n ELSE 0)
          /\ \A k \in DOMAIN GS : GS'[k].listeners = GS[k].listeners]_vars

\* c1 listens to CURRENT_FOLDER and c2 to NEW_KEY; a setGS on CURRENT_FOLDER called c1's setVal and not c2's
C6_Witness ==
    /\ last.op = "setGS" /\ last.key = "CURRENT_FOLDER"
    /\ HasHandle("c1", "CURRENT_FOLDER") /\ HasHandle("c2", "NEW_KEY") /\ ~HasHandle("c2", "CURRENT_FOLDER")
    /\ last.invoked["c1"] = 1 /\ last.invoked["c2"] = 0

\* C7: getGS on a key that has no entry returns null and changes nothing.
C7_GetMissingKeyReturnsNull ==
    [][(last'.op = "getGS" /\ last'.key \notin DOMAIN GS) =>
          /\ last'.ret = Null
          /\ GS' = GS /\ inherited' = inherited /\ objs' = objs]_vars

\* C8: after initGS(defaults), getGS returns the default of every key of
\* defaults: the very value that defaults holds under the key.
C8_InitThenGetReturnsDefault ==
    last.op = "initGS" =>
        \A k \in DOMAIN OwnProps(objs, last.arg) :
            getGS(objs, GS, inherited, k) = OwnProps(objs, last.arg)[k]

\* setGS("__proto__", {a: 5}) had made {a: 5} the value of Object.prototype;
\* then initGS of an object with the own key __proto__ and the value false
\* ran, and the key reads false
C8_Witness ==
    /\ last.op = "initGS"
    /\ last.arg = Obj([__proto__ |-> False])
    /\ ProtoValue(inherited) = RecA
    /\ getGS(objs, GS, inherited, "__proto__") = False

\* C9: initGS(defaults) makes the entry of each key of defaults
\* {value: default, listeners: empty} and leaves every other key as it was; a
\* setGS that follows on a key of defaults calls no setVal, and no step puts a
\* listener back into a set: a listener that enters a set is newly allocated.
C9_InitReplacesEntriesAndDropsListeners ==
    [][/\ (last'.op = "initGS" /\ calls' = calls + 1) =>
             /\ \A k \in DOMAIN OwnProps(objs, last'.arg) :
                   /\ k \in DOMAIN GS'
                   /\ GS'[k] = [value |-> OwnProps(objs, last'.arg)[k],
                                listeners |-> {}]
             /\ \A k \in Keys \ DOMAIN OwnProps(objs, last'.arg) :
                   /\ k \in DOMAIN GS' <=> k \in DOMAIN GS
                   /\ k \in DOMAIN GS => GS'[k] = GS[k]
             /\ inherited' = inherited /\ objs' = objs
       /\ (last.op = "initGS" /\ last'.op = "setGS" /\ calls' = calls + 1
             /\ last'.key \in DOMAIN OwnProps(objs, last.arg)) =>
             \A c \in Comps : last'.invoked[c] = 0
       /\ \A k \in DOMAIN GS' : \A h \in GS'[k].listeners :
             (k \in DOMAIN GS /\ h \in GS[k].listeners) \/ h.id >= nextId]_vars

\* c1 had subscribed to CURRENT_FOLDER; initGS on CURRENT_FOLDER emptied CURRENT_FOLDER's listener set, and the
\* setGS on CURRENT_FOLDER that followed did not call c1's setVal
C9_Witness ==
    /\ last.op = "setGS" /\ last.key = "CURRENT_FOLDER"
    /\ comp["c1"].phase = "committed" /\ comp["c1"].cleanup = <<"CURRENT_FOLDER", 0>>
    /\ GS["CURRENT_FOLDER"].listeners = {}
    /\ last.invoked["c1"] = 0

\* C10: setGS on a key that has no entry creates the entry with the value
\* written and an empty listener set, calls no setVal and returns.
C10_FirstWriteCreatesEntry ==
    [][(last'.op = "setGS" /\ calls' = calls + 1 /\ last'.key \notin DOMAIN GS) =>
          /\ last'.key \in DOMAIN GS'
          /\ GS'[last'.key] = [value |-> last'.arg, listeners |-> {}]
          /\ \A c \in Comps : last'.invoked[c] = 0
          /\ ~last'.threw]_vars

\* the step is a call setGS(K, _) on a key K that GS[K] finds
WriteOnFound ==
    last'.op = "setGS" /\ calls' = calls + 1 /\ Found(GS, inherited, last'.key)

\* C11: when the current value of K is a truthy keyed record and the written
\* value is truthy, setGS computes a new record whose keys are those of the
\* old record and of the written value, each key of the written value with
\* the written value's content (a nested record under it replaced wholesale)
\* and every other key with the old record's content, and stores it as the
\* value of K.
C11_MergeIsOneLevelDeep ==
    [][LET old == ValueOf(objs, GS, inherited, last'.key)
           merged == makeNewValue(objs, old, last'.arg)
           stored == ValueOf(objs', GS', inherited', last'.key)
           written == OwnProps(objs, last'.arg)
       IN (WriteOnFound /\ Truthy(old) /\ old.t = "object" /\ Truthy(last'.arg)) =>
             /\ merged.t = "object" /\ ~IsHeld(merged)
             /\ DOMAIN merged.f = DOMAIN Props(objs, old) \cup DOMAIN written
             /\ \A k \in DOMAIN written : merged.f[k] = written[k]
             /\ \A k \in DOMAIN Props(objs, old) \ DOMAIN written :
                   merged.f[k] = Props(objs, old)[k]
             /\ stored = merged]_vars

\* the type tags of the values of JavaScript the model has
TypeTags ==
    {"undefined", "null", "number", "string", "boolean", "array", "object"}

\* C12: makeNewValue(old, new) returns new as it is when old is falsy, when new
\* is falsy, and when old is truthy but no keyed record (a scalar or an array);
\* it returns a value in every case, which the write stores wherever the
\* assignment does not throw, and a write on an entry does not throw.
C12_FallThroughReturnsNewValue ==
    [][LET old == ValueOf(objs, GS, inherited, last'.key)
           returned == makeNewValue(objs, old, last'.arg)
           stored == ValueOf(objs', GS', inherited', last'.key)
       IN WriteOnFound =>
             /\ returned.t \in TypeTags
             /\ last'.key \in DOMAIN GS => ~last'.threw
             /\ (~Truthy(old) \/ ~Truthy(last'.arg) \/ old.t # "object") =>
                    returned = last'.arg
             /\ CanAssign(GS, inherited, last'.key) => stored = returned]_vars

\* CURRENT_FOLDER got a value that is falsy or no keyed record, then the array
\* [5] was written to it, and it holds the array [5] itself
C12_Witness ==
    /\ last.op = "setGS" /\ last.key = "CURRENT_FOLDER" /\ last.arg = ArrFive
    /\ calls = 3 /\ DOMAIN GS = {"CURRENT_FOLDER"}
    /\ GS["CURRENT_FOLDER"].value = ArrFive
    /\ View(objs, GS["CURRENT_FOLDER"].value) = Arr(<<Five>>)
    /\ DOMAIN inherited = {}

\* C13: a render useGS(K, initialValue) creates K's entry with the value
\* initialValue and an empty listener set when K has no entry, assigns
\* initialValue to an entry whose value is undefined, leaves an entry with a
\* defined value as it is, and returns the value K's entry then has.
C13_RenderEnsuresEntry ==
    [][(last'.op = "useGS" /\ calls' = calls + 1) =>
          LET k == last'.key
              initialValue == last'.arg
          IN /\ k \notin DOMAIN GS =>
                   /\ k \in DOMAIN GS'
                   /\ GS'[k] = [value |-> initialValue, listeners |-> {}]
             /\ (k \in DOMAIN GS /\ GS[k].value = Undefined) =>
                   GS'[k] = [GS[k] EXCEPT !.value = initialValue]
             /\ (k \in DOMAIN GS /\ GS[k].value # Undefined) => GS'[k] = GS[k]
             /\ k \in DOMAIN GS'
             /\ last'.ret = GS'[k].value]_vars

\* how many listeners of component c the listener set of key k holds
HandlesOf(gs, c, k) == Cardinality({h \in gs[k].listeners : h.comp = c})

\* the step puts a listener of component c into some key's listener set
AddsHandle(c) ==
    \E k \in DOMAIN GS' : \E h \in GS'[k].listeners :
        h.comp = c /\ ~(k \in DOMAIN GS /\ h \in GS[k].listeners)

\* C14: a component's listener is added once: only the commit that takes
\* isFirstRender.current from true to false adds one, the flag never becomes true
\* again, so no listener set ever holds two listeners of one component, and a
\* setGS calls the setVal of a component at most once.
C14_SubscribeOncePerInstance ==
    [][\A c \in Comps :
          /\ \A k \in DOMAIN GS' : HandlesOf(GS', c, k) <= 1
          /\ AddsHandle(c) =>
                /\ last'.op = "commit"
                /\ comp[c].isFirstRender /\ ~comp'[c].isFirstRender
          /\ ~comp[c].isFirstRender => ~comp'[c].isFirstRender
          /\ last'.op = "setGS" => last'.invoked[c] <= 1]_vars

\* c1 subscribed to CURRENT_FOLDER, was re-rendered by a write and committed
\* again (its effect ran again, val being a dependency); the next write on
\* CURRENT_FOLDER called its setVal once
C14_Witness ==
    /\ last.op = "setGS" /\ last.key = "CURRENT_FOLDER"
    /\ comp["c1"].phase = "committed" /\ comp["c1"].deps = <<"CURRENT_FOLDER", 1>>
    /\ comp["c1"].pending = 1
    /\ HandlesOf(GS, "c1", "CURRENT_FOLDER") = 1
    /\ last.invoked["c1"] = 1

\* the step notifies component c: an update of it is queued
NotifiesComp(c) == comp'[c].pending > comp[c].pending

\* the step is a render of the mounted component c, with its key as before,
\* that consumes updates queued by writes
RerenderByWrite(c) ==
    /\ last'.op = "useGS" /\ last'.key = comp[c].key
    /\ comp[c].phase = "committed" /\ comp'[c].phase = "rendered"
    /\ comp[c].pending >= 1

\* C15 as stated: a component is notified only within a setGS on a key that has
\* an entry, in the step that has stored makeNewValue(previous value, written
\* value), so every write is in the registry when a render runs; and the
\* re-render of a notified component observes the value the registry holds for
\* its key, the writes included.
C15_RerenderReadsWrittenValue ==
    [][\A c \in Comps :
          /\ NotifiesComp(c) =>
                /\ last'.op = "setGS" /\ last'.key \in DOMAIN GS
                /\ GS'[last'.key].value =
                       makeNewValue(objs, GS[last'.key].value, last'.arg)
                /\ comp'[c].pending = comp[c].pending + last'.invoked[c]
          /\ RerenderByWrite(c) =>
                comp'[c].observed = ValueOf(objs, GS, inherited, last'.key)]_vars

\* C15 amended: as above, but when the value the registry holds for the key is
\* undefined (undefined was written) the re-render assigns its initialValue to
\* the key and observes initialValue; in both cases the value observed is the
\* one the registry holds after the render.
C15_RerenderReadsWrittenOrInitialValue ==
    [][\A c \in Comps :
          /\ NotifiesComp(c) =>
                /\ last'.op = "setGS" /\ last'.key \in DOMAIN GS
                /\ GS'[last'.key].value =
                       makeNewValue(objs, GS[last'.key].value, last'.arg)
                /\ comp'[c].pending = comp[c].pending + last'.invoked[c]
          /\ RerenderByWrite(c) =>
                /\ comp'[c].observed =
                       IF ValueOf(objs, GS, inherited, last'.key) = Undefined
                       THEN last'.arg
                       ELSE ValueOf(objs, GS, inherited, last'.key)
                /\ comp'[c].observed = ValueOf(objs', GS', inherited', last'.key)]_vars

\* two writes of {b: 0} on CURRENT_FOLDER notified c1 before it rendered
\* again; its one re-render consumed both updates and observes {a: 5, b: 0}
C15_Witness ==
    /\ last.op = "useGS" /\ last.key = "CURRENT_FOLDER"
    /\ comp["c1"].phase = "rendered" /\ comp["c1"].val = 2
    /\ comp["c1"].observed = Obj([a |-> Five, b |-> Zero])
    /\ GS["CURRENT_FOLDER"].value = Obj([a |-> Five, b |-> Zero])

\* the step is the first commit of component c: the effect's first run
FirstCommit(c) == comp[c].isFirstRender /\ ~comp'[c].isFirstRender

\* C16: a listener of a component enters a listener set only at the commit
\* after the component's first render: a render adds none, a component that
\* has rendered and not committed has none in any set, and the first commit
\* puts one listener of the component into the set of the key it rendered with.
C16_HandleAddedAtFirstCommit ==
    [][\A c \in Comps :
          /\ AddsHandle(c) => (last'.op = "commit" /\ FirstCommit(c))
          /\ (comp'[c].phase = "rendered" /\ comp'[c].isFirstRender) =>
                \A k \in DOMAIN GS' : HandlesOf(GS', c, k) = 0
          /\ FirstCommit(c) =>
                /\ last'.op = "commit" /\ ~last'.threw
                /\ comp[c].key \in DOMAIN GS'
                /\ HandlesOf(GS', c, comp[c].key) = 1
                /\ comp'[c].phase = "committed"]_vars

\* C17: no step deletes an entry: a key that has an entry has one after every
\* step (initGS, getGS, setGS, render, commit, unmount), and every entry is a
\* record of a value and a set of listeners.
C17_EntriesAreNeverDeleted ==
    [][/\ DOMAIN GS \subseteq DOMAIN GS'
       /\ \A k \in DOMAIN GS' :
             /\ DOMAIN GS'[k] = {"value", "listeners"}
             /\ GS'[k].value.t \in TypeTags
             /\ \A h \in GS'[k].listeners : h.comp \in Comps]_vars

\* c1 rendered, committed and unmounted, initGS and setGS ran, and two keys
\* have an entry
C17_Witness ==
    /\ last.op = "unmount" /\ comp["c1"].phase = "unmounted"
    /\ calls = 3 /\ Cardinality(DOMAIN GS) = 2
    /\ comp["c1"].key \in DOMAIN GS

\* C18: when no update of any component is queued, every mounted component
\* whose effect has committed observed, at its last render, the value the
\* registry now holds for its key.
C18_QuiescentSubscribersAreCurrent ==
    (\A d \in Comps : comp[d].pending = 0) =>
        \A c \in Comps :
            (comp[c].phase = "committed" /\ comp[c].key \in DOMAIN GS) =>
                comp[c].observed = GS[comp[c].key].value

\* C19: getGS changes nothing of the registry or the components; setGS(K, v)
\* leaves the entry of every key other than K as it was and creates none but
\* K's, leaves what getGS returns for every key other than K, by content, as
\* it was, and leaves the listener set of an entry K has as it was.
C19_ReadAndWriteFrame ==
    [][/\ last'.op = "getGS" =>
             /\ GS' = GS /\ inherited' = inherited /\ objs' = objs
             /\ comp' = comp /\ nextId' = nextId
       /\ (last'.op = "setGS" /\ calls' = calls + 1) =>
             /\ DOMAIN GS' \subseteq DOMAIN GS \cup {last'.key}
             /\ \A k \in DOMAIN GS \ {last'.key} :
                   k \in DOMAIN GS' /\ GS'[k] = GS[k]
             /\ \A k \in Keys \ {last'.key} :
                   View(objs', getGS(objs', GS', inherited', k))
                      = View(objs, getGS(objs, GS, inherited, k))
             /\ last'.key \in DOMAIN GS =>
                   /\ last'.key \in DOMAIN GS'
                   /\ GS'[last'.key].listeners = GS[last'.key].listeners
             /\ nextId' = nextId]_vars

\* C20: a call setGS(K, v) made right after the call setGS(K, v) leaves
\* getGS(K), by content, as the first call left it, also when K had no entry
\* before the first call.
C20_WriteTwiceIsWriteOnce ==
    [][(SecondWrite /\ last'.arg = last.arg) =>
          View(objs', getGS(objs', GS', inherited', last'.key))
             = View(objs, getGS(objs, GS, inherited, last.key))]_vars

====
